---- MODULE Spec2Model ----
(***************************************************************************)
(* The in-memory ledger of finance_ledger.py: the class                    *)
(* PersonalFinanceLedger (a list of transaction dicts and the next-id      *)
(* counter), its three methods, and the CLI handler of the `add`           *)
(* subcommand that calls it.                                               *)
(*                                                                         *)
(* Representation.                                                         *)
(*   - A Python float is a record [nan, m]: either NaN, or the number      *)
(*     m / 1000 (m an integer count of thousandths).  Sums and differences *)
(*     are exact in this representation; binary representation error of    *)
(*     IEEE doubles is not modelled.  Two float values are the same value  *)
(*     when their records are equal (NaN is the same value as NaN).        *)
(*   - A Python str that the code inspects (the type token, the amount     *)
(*     token, the stored "type") is a sequence of one-character strings,   *)
(*     so that capitalize() and float() are computed, not assumed.         *)
(*     description and category are never inspected and stay opaque.       *)
(*     float() is modelled for plain decimal literals with an optional     *)
(*     sign and for "nan"; round(x, 2) is exact on thousandths (the         *)
(*     amounts used never lie on a rounding tie).                          *)
(*   - A transaction dict is a record; a dict lacking a key is a record    *)
(*     without that field (dict.get is dict_get below).                    *)
(*                                                                         *)
(* main() builds one ledger and runs one subcommand on it; here the ledger *)
(* is used as the class allows: constructed with or without a list, then   *)
(* its methods and the CLI add handler called in any order.                *)
(***************************************************************************)
EXTENDS Integers, Sequences, FiniteSets, TLC

\* Largest number of transactions a ledger of the model holds, and of ids
\* it hands out.
MaxTx == 2

-----------------------------------------------------------------------------
(* Python float *)

NaN == [nan |-> TRUE, m |-> 0]

Num(m) == [nan |-> FALSE, m |-> m]

\* x <= 0 on floats: every comparison with NaN is False.
FLe0(x) == ~x.nan /\ x.m <= 0

\* x > 0 on floats.
FGt0(x) == ~x.nan /\ x.m > 0

\* x + y
FAdd(x, y) == IF x.nan \/ y.nan THEN NaN ELSE Num(x.m + y.m)

\* x - y
FSub(x, y) == IF x.nan \/ y.nan THEN NaN ELSE Num(x.m - y.m)

\* round(x, 2): the closest multiple of 0.01, a tie going to the even
\* multiple; round(nan, 2) is nan.  (\div is floor division, % is >= 0.)
round2(x) ==
    IF x.nan THEN NaN
    ELSE LET q == x.m \div 10
             r == x.m % 10
         IN  Num(10 * (IF r < 5 THEN q
                       ELSE IF r > 5 THEN q + 1
                       ELSE IF q % 2 = 0 THEN q ELSE q + 1))

-----------------------------------------------------------------------------
(* Python str, as far as the code looks into it *)

LowerCase == <<"a","b","c","d","e","f","g","h","i","j","k","l","m",
               "n","o","p","q","r","s","t","u","v","w","x","y","z">>

UpperCase == <<"A","B","C","D","E","F","G","H","I","J","K","L","M",
               "N","O","P","Q","R","S","T","U","V","W","X","Y","Z">>

upper(c) ==
    IF \E k \in DOMAIN LowerCase : LowerCase[k] = c
    THEN UpperCase[CHOOSE k \in DOMAIN LowerCase : LowerCase[k] = c]
    ELSE c

lower(c) ==
    IF \E k \in DOMAIN UpperCase : UpperCase[k] = c
    THEN LowerCase[CHOOSE k \in DOMAIN UpperCase : UpperCase[k] = c]
    ELSE c

\* str.capitalize(): first character upper-cased, the rest lower-cased.
capitalize(s) == [i \in 1..Len(s) |-> IF i = 1 THEN upper(s[i]) ELSE lower(s[i])]

Digits == <<"0","1","2","3","4","5","6","7","8","9">>

IsDigit(c) == \E k \in DOMAIN Digits : Digits[k] = c

DigitVal(c) == (CHOOSE k \in DOMAIN Digits : Digits[k] = c) - 1

AllDigits(s) == \A i \in DOMAIN s : IsDigit(s[i])

\* The number a string of digits denotes.
RECURSIVE DigitsVal(_)
DigitsVal(s) ==
    IF s = <<>> THEN 0
    ELSE 10 * DigitsVal(SubSeq(s, 1, Len(s) - 1)) + DigitVal(s[Len(s)])

\* s * 10^k
RECURSIVE Shift(_, _)
Shift(n, k) == IF k = 0 THEN n ELSE Shift(10 * n, k - 1)

\* Whether s is an unsigned decimal literal "ddd", "ddd.", ".ddd" or
\* "ddd.ddd" with at most three fraction digits (a whole number of
\* thousandths).
IsLiteral(s) ==
    LET dots == {i \in DOMAIN s : s[i] = "."}
    IN  IF dots = {}
        THEN s # <<>> /\ AllDigits(s)
        ELSE /\ Cardinality(dots) = 1
             /\ \A i \in DOMAIN s : i \in dots \/ IsDigit(s[i])
             /\ Len(s) > 1
             /\ \A d \in dots : Len(s) - d <= 3

\* The value of such a literal, in thousandths.
LiteralVal(s) ==
    LET dots == {i \in DOMAIN s : s[i] = "."}
    IN  IF dots = {}
        THEN Shift(DigitsVal(s), 3)
        ELSE LET d    == CHOOSE i \in dots : TRUE
                 int  == SubSeq(s, 1, d - 1)
                 frac == SubSeq(s, d + 1, Len(s))
             IN  Shift(DigitsVal(int), 3) + Shift(DigitsVal(frac), 3 - Len(frac))

\* float(s): [raised, value].  A literal with an optional sign, or "nan" in
\* any case; anything else raises ValueError.
float(s) ==
    LET low  == [i \in DOMAIN s |-> lower(s[i])]
        neg  == s # <<>> /\ s[1] = "-"
        body == IF s # <<>> /\ s[1] \in {"-", "+"} THEN Tail(s) ELSE s
    IN  IF low \in {<<"n","a","n">>, <<"+","n","a","n">>, <<"-","n","a","n">>}
        THEN [raised |-> "None", value |-> NaN]
        ELSE IF IsLiteral(body)
        THEN [raised |-> "None",
              value  |-> Num(IF neg THEN 0 - LiteralVal(body) ELSE LiteralVal(body))]
        ELSE [raised |-> "ValueError", value |-> NaN]

-----------------------------------------------------------------------------
(* PersonalFinanceLedger *)

\* TransactionType = Literal["Income", "Expense"]
Income == <<"I","n","c","o","m","e">>

Expense == <<"E","x","p","e","n","s","e">>

TransactionType == {Income, Expense}

\* dict.get(key, default)
dict_get(d, key, default) == IF key \in DOMAIN d THEN d[key] ELSE default

\* __init__: the list given is stored itself (not copied); without one a
\* fresh empty list is made.  The counter starts at 1 in both cases.
PersonalFinanceLedger(given, initial_transactions) ==
    [transactions           |-> IF given THEN initial_transactions ELSE <<>>,
     transaction_id_counter |-> 1]

\* _get_next_id with the increment before the read.
get_next_id_incremented_first(self) ==
    [self    |-> [self EXCEPT !.transaction_id_counter = @ + 1],
     next_id |-> self.transaction_id_counter + 1]

\* _get_next_id: returns the counter and increments it.
get_next_id(self) ==
    [self    |-> [self EXCEPT !.transaction_id_counter = @ + 1],
     next_id |-> self.transaction_id_counter]

\* add_transaction with the amount checked after the id is taken.
add_transaction_checked_late(self, type, amount, description, category) ==
    LET g  == get_next_id(self)
        transaction == [id          |-> g.next_id,
                        type        |-> type,
                        amount      |-> amount,
                        description |-> description,
                        category    |-> category]
    IN  IF FLe0(amount)
        THEN [self |-> g.self, raised |-> "ValueError", ret |-> "None"]
        ELSE [self   |-> [g.self EXCEPT !.transactions = Append(@, transaction)],
              raised |-> "None",
              ret    |-> transaction]

\* add_transaction: [self, raised, ret]; self is the ledger as the call
\* leaves it, ret the dict returned (the one appended).
add_transaction(self, type, amount, description, category) ==
    IF FLe0(amount)
    THEN [self |-> self, raised |-> "ValueError", ret |-> "None"]
    ELSE LET g  == get_next_id(self)
             transaction == [id          |-> g.next_id,
                             type        |-> type,
                             amount      |-> amount,
                             description |-> description,
                             category    |-> category]
         IN  [self   |-> [g.self EXCEPT !.transactions = Append(@, transaction)],
              raised |-> "None",
              ret    |-> transaction]

\* The loop of get_summary over transactions[i..]: the two running totals.
RECURSIVE summary_loop(_, _, _, _)
summary_loop(txs, i, total_income, total_expense) ==
    IF i > Len(txs)
    THEN [total_income |-> total_income, total_expense |-> total_expense]
    ELSE LET tx        == txs[i]
             tx_type   == dict_get(tx, "type", Expense)
             tx_amount == dict_get(tx, "amount", Num(0))
         IN  IF tx_type = Income
             THEN summary_loop(txs, i + 1, FAdd(total_income, tx_amount), total_expense)
             ELSE IF tx_type = Expense
             THEN summary_loop(txs, i + 1, total_income, FAdd(total_expense, tx_amount))
             ELSE summary_loop(txs, i + 1, total_income, total_expense)

\* get_summary with the net balance taken from the rounded totals.
get_summary_net_of_rounded(self) ==
    LET t == summary_loop(self.transactions, 1, Num(0), Num(0))
    IN  [total_income  |-> round2(t.total_income),
         total_expense |-> round2(t.total_expense),
         net_balance   |-> FSub(round2(t.total_income), round2(t.total_expense))]

\* get_summary: the dict returned.
get_summary(self) ==
    LET t == summary_loop(self.transactions, 1, Num(0), Num(0))
        net_balance == FSub(t.total_income, t.total_expense)
    IN  [total_income  |-> round2(t.total_income),
         total_expense |-> round2(t.total_expense),
         net_balance   |-> round2(net_balance)]

\* get_transactions: the list itself.
get_transactions(self) == self.transactions

\* cli_add_transaction: [self, printed].  Every exception is caught inside
\* the handler; printed is the message the user gets.
cli_add_transaction(ledger, args) ==
    LET amount_float == float(args.amount)
        tx_type      == capitalize(args.type)
    IN  IF amount_float.raised = "ValueError"
        THEN [self |-> ledger, printed |-> "Error adding transaction"]
        ELSE IF tx_type \notin {Income, Expense}
        THEN [self |-> ledger, printed |-> "Error: Invalid type"]
        ELSE LET r == add_transaction(ledger, tx_type, amount_float.value,
                                      args.description, args.category)
             IN  IF r.raised = "ValueError"
                 THEN [self |-> r.self, printed |-> "Error adding transaction"]
                 ELSE [self |-> r.self, printed |-> "Transaction added successfully"]

-----------------------------------------------------------------------------
(* The state: one ledger object and the last call made on it *)

VARIABLES
    transactions,            \* self.transactions
    transaction_id_counter,  \* self.transaction_id_counter
    caller_list,             \* TRUE when self.transactions is the list the
                             \* constructor was given (the caller still has it)
    op,                      \* the last call: its name,
    args,                    \*   its arguments,
    raised,                  \*   the exception that left it ("None": none),
    printed,                 \*   what the CLI handler printed,
    ret,                     \*   and what it returned
    successful_adds          \* history: how many dicts the ledger has built

vars == <<transactions, transaction_id_counter, caller_list,
          op, args, raised, printed, ret, successful_adds>>

Self == [transactions           |-> transactions,
         transaction_id_counter |-> transaction_id_counter]

\* A type the Literal does not list.
Transfer == <<"T","r","a","n","s","f","e","r">>

\* Values the calls of the model are made with.
AddAmounts == {Num(0 - 5000), Num(0), Num(4), Num(6), Num(25000), Num(100000), NaN}

Descriptions == {"Groceries"}

Categories == {"Food"}

\* The calls of add_transaction: every type of the Literal with every
\* amount, and one call with a type outside the Literal (which nothing at
\* run time rejects).
AddCalls ==
    [type : TransactionType, amount : AddAmounts,
     description : Descriptions, category : Categories]
    \cup [type : {Transfer}, amount : {Num(25000)},
          description : Descriptions, category : Categories]

TypeTokens == {<<"i","n","c","o","m","e">>,
               <<"E","X","P","E","N","S","E">>,
               <<"t","r","a","n","s","f","e","r">>}

AmountTokens == {<<"-","5">>, <<"a","b","c">>, <<"n","a","n">>,
                 <<"2","5",".","0","0">>}

\* Lists a ledger is constructed with (Ledger = List[Dict[str, str | float]]):
\* a well-formed record, a record of another type, a record without a
\* "type".
InitialLedgers ==
    {<<[id |-> 1, type |-> Income, amount |-> Num(25000),
        description |-> "Groceries", category |-> "Food"]>>,
     <<[id |-> 1, type |-> Transfer, amount |-> Num(25000),
        description |-> "Groceries", category |-> "Food"]>>,
     <<[id |-> 1, amount |-> Num(25000),
        description |-> "Groceries", category |-> "Food"]>>}

NoArgs == <<>>

\* The model stops adding at MaxTx transactions and MaxTx ids.
WithinBounds(self) ==
    /\ Len(self.transactions) <= MaxTx
    /\ self.transaction_id_counter <= MaxTx + 1

Init ==
    \E given \in BOOLEAN :
      \E initial_transactions \in (IF given THEN InitialLedgers ELSE {<<>>}) :
        LET self == PersonalFinanceLedger(given, initial_transactions)
        IN  /\ transactions = self.transactions
            /\ transaction_id_counter = self.transaction_id_counter
            /\ caller_list = given
            /\ op = "__init__"
            /\ args = NoArgs
            /\ raised = "None"
            /\ printed = ""
            /\ ret = "None"
            /\ successful_adds = 0

\* ledger.add_transaction(type, amount, description, category)
AddTransaction ==
    \E a \in AddCalls :
      LET r == add_transaction(Self, a.type, a.amount, a.description, a.category)
      IN  /\ WithinBounds(r.self)
          /\ transactions' = r.self.transactions
          /\ transaction_id_counter' = r.self.transaction_id_counter
          /\ op' = "add_transaction"
          /\ args' = a
          /\ raised' = r.raised
          /\ printed' = ""
          /\ ret' = r.ret
          /\ successful_adds' = successful_adds + (IF r.raised = "None" THEN 1 ELSE 0)
          /\ UNCHANGED caller_list

\* cli_add_transaction(ledger, args)
CliAddTransaction ==
    \E type \in TypeTokens, amount \in AmountTokens,
       description \in Descriptions, category \in Categories :
      LET a == [type |-> type, amount |-> amount,
                description |-> description, category |-> category]
          r == cli_add_transaction(Self, a)
      IN  /\ WithinBounds(r.self)
          /\ transactions' = r.self.transactions
          /\ transaction_id_counter' = r.self.transaction_id_counter
          /\ op' = "cli_add_transaction"
          /\ args' = a
          /\ raised' = "None"
          /\ printed' = r.printed
          /\ ret' = "None"
          /\ successful_adds' =
                successful_adds + Len(r.self.transactions) - Len(transactions)
          /\ UNCHANGED caller_list

\* get_summary that takes the transactions off the list as it sums them.
GetSummaryDraining ==
    /\ op' = "get_summary"
    /\ args' = NoArgs
    /\ raised' = "None"
    /\ printed' = ""
    /\ ret' = get_summary(Self)
    /\ transactions' = <<>>
    /\ UNCHANGED <<transaction_id_counter, caller_list, successful_adds>>

\* ledger.get_summary()
GetSummary ==
    /\ op' = "get_summary"
    /\ args' = NoArgs
    /\ raised' = "None"
    /\ printed' = ""
    /\ ret' = get_summary(Self)
    /\ UNCHANGED <<transactions, transaction_id_counter, caller_list, successful_adds>>

\* ledger.get_transactions()
GetTransactions ==
    /\ op' = "get_transactions"
    /\ args' = NoArgs
    /\ raised' = "None"
    /\ printed' = ""
    /\ ret' = get_transactions(Self)
    /\ UNCHANGED <<transactions, transaction_id_counter, caller_list, successful_adds>>

Next ==
    \/ AddTransaction
    \/ CliAddTransaction
    \/ GetSummary
    \/ GetTransactions

Spec == Init /\ [][Next]_vars

-----------------------------------------------------------------------------
(* The caller's side of the references the ledger hands out.               *)
(* add_transaction returns the dict it appended, get_transactions returns  *)
(* self.transactions, and __init__ keeps the list it was given: in each    *)
(* case the caller and the ledger hold the same object, so an assignment   *)
(* through the caller's reference is an assignment to the ledger's data.   *)

CallerAmounts == {Num(0 - 5000)}

CallerStep ==
    /\ op' = "caller_mutation"
    /\ args' = NoArgs
    /\ raised' = "None"
    /\ printed' = ""
    /\ ret' = "None"
    /\ UNCHANGED <<transaction_id_counter, caller_list, successful_adds>>

\* new_tx = ledger.add_transaction(...); new_tx["amount"] = v
CallerEditsReturnedTx ==
    /\ op = "add_transaction" /\ raised = "None"
    /\ \E v \in CallerAmounts :
         transactions' = [transactions EXCEPT ![Len(transactions)].amount = v]
    /\ CallerStep

\* lst = ledger.get_transactions(), or the list given to __init__;
\* lst[i]["amount"] = v
CallerEditsListEntry ==
    /\ op = "get_transactions" \/ caller_list
    /\ \E i \in DOMAIN transactions, v \in CallerAmounts :
         transactions' = [transactions EXCEPT ![i].amount = v]
    /\ CallerStep

\* the same lst; lst.pop()
CallerPopsList ==
    /\ op = "get_transactions" \/ caller_list
    /\ transactions # <<>>
    /\ transactions' = SubSeq(transactions, 1, Len(transactions) - 1)
    /\ CallerStep

NextAlias ==
    \/ AddTransaction
    \/ CliAddTransaction
    \/ GetSummary
    \/ GetTransactions
    \/ CallerEditsReturnedTx
    \/ CallerEditsListEntry
    \/ CallerPopsList

SpecAlias == Init /\ [][NextAlias]_vars

-----------------------------------------------------------------------------
(* Properties *)

\* The ledger after the step.
SelfNext == [transactions           |-> transactions',
             transaction_id_counter |-> transaction_id_counter']

AddReturned == op = "add_transaction" /\ raised = "None"

AddRaised == op = "add_transaction" /\ raised = "ValueError"

CliAdded == op = "cli_add_transaction" /\ printed = "Transaction added successfully"

\* Whether dict tx has the given type.
HasType(tx, type) == "type" \in DOMAIN tx /\ tx.type = type

IsIncome(tx) == HasType(tx, Income)

IsExpense(tx) == HasType(tx, Expense)

\* What the loop of get_summary takes for an expense: also a dict without
\* a "type".
SummedAsExpense(tx) == dict_get(tx, "type", Expense) = Expense

\* The sum of the amounts of the transactions at the positions in S, taken
\* from the last position back (get_summary accumulates from the first on).
RECURSIVE AmountSum(_)
AmountSum(S) ==
    IF S = {} THEN Num(0)
    ELSE LET n == CHOOSE k \in S : \A j \in S : j <= k
         IN  FAdd(AmountSum(S \ {n}), dict_get(transactions[n], "amount", Num(0)))

IncomeSum == AmountSum({i \in DOMAIN transactions : IsIncome(transactions[i])})

ExpenseSum == AmountSum({i \in DOMAIN transactions : IsExpense(transactions[i])})

SummedAsExpenseSum ==
    AmountSum({i \in DOMAIN transactions : SummedAsExpense(transactions[i])})

\* C1: whenever add_transaction is called with an amount <= 0 (any type,
\* description and category, any ledger), it raises ValueError and the
\* transaction list and the id counter are what they were before the call, so
\* the summary is the same before and after.
C1_InvalidAmountRejected ==
    [][(op' = "add_transaction" /\ FLe0(args'.amount)) =>
          /\ raised' = "ValueError"
          /\ transactions' = transactions
          /\ transaction_id_counter' = transaction_id_counter
          /\ get_summary(SelfNext) = get_summary(Self)]_vars

\* C1's case: a call with amount <= 0 has failed on a ledger that holds
\* transactions.
C1_Witness ==
    /\ AddRaised
    /\ FLe0(args.amount)
    /\ transactions # <<>>
    /\ transaction_id_counter > 1

\* C2 (as claimed): in every state the ids are strictly increasing in list
\* order (hence unique), and a successful add_transaction leaves the old
\* elements in place, puts the new one last and gives it an id greater than
\* every earlier one.
C2_Original ==
    [][/\ \A i, j \in DOMAIN transactions' :
             i < j => transactions'[i].id < transactions'[j].id
       /\ (op' = "add_transaction" /\ raised' = "None") =>
             /\ transactions' = Append(transactions, ret')
             /\ \A i \in DOMAIN transactions : transactions[i].id < ret'.id]_vars

\* C3: the id counter is always 1 plus the number of successful adds so far
\* (a number that only grows: so a failed add consumes no id, and the counter
\* never decreases or resets), and the k-th successful add, through
\* add_transaction or the CLI handler, gives id k.
C3_SequentialIds ==
    /\ transaction_id_counter = 1 + successful_adds
    /\ AddReturned => ret.id = successful_adds
    /\ AddReturned \/ CliAdded =>
          /\ transactions # <<>>
          /\ transactions[Len(transactions)].id = successful_adds

\* C3's case: the second successful add has returned, with id 2, on a
\* ledger that holds two transactions.
C3_Witness ==
    /\ AddReturned
    /\ successful_adds = 2
    /\ ret.id = 2
    /\ Len(transactions) = 2

\* C4 (as claimed): every stored transaction has an amount > 0.
C4_Original ==
    \A i \in DOMAIN transactions :
        "amount" \in DOMAIN transactions[i] /\ FGt0(transactions[i].amount)

\* C5 (as claimed): the returned values satisfy
\* net_balance = total_income - total_expense.
C5_Original ==
    op = "get_summary" =>
        ret.net_balance = FSub(ret.total_income, ret.total_expense)

\* C5 (amended): the returned net_balance is the difference of the unrounded
\* sums (income amounts minus expense amounts), rounded to two decimals.
C5_NetIsRoundedDifference ==
    op = "get_summary" =>
        ret.net_balance =
            round2(FSub(IncomeSum, SummedAsExpenseSum))

\* C5's case: a summary whose three returned values do not add up.
C5_Witness ==
    /\ op = "get_summary"
    /\ ret.net_balance # FSub(ret.total_income, ret.total_expense)

\* The summary of the empty ledger.
ZeroSummary == [total_income |-> Num(0), total_expense |-> Num(0), net_balance |-> Num(0)]

\* C6 (as claimed): total_income is the rounded sum of the Income amounts,
\* total_expense the rounded sum of the Expense amounts, every stored
\* transaction is in exactly one of the two sums; the empty ledger gives
\* {0.00, 0.00, 0.00}; add(Expense, 25.00), add(Income, 100.00) gives
\* {100.00, 25.00, 75.00}.
C6_Original ==
    op = "get_summary" =>
        /\ ret.total_income = round2(IncomeSum)
        /\ ret.total_expense = round2(ExpenseSum)
        /\ \A i \in DOMAIN transactions :
              IsIncome(transactions[i]) \/ IsExpense(transactions[i])
        /\ transactions = <<>> => ret = ZeroSummary
        /\ ( /\ Len(transactions) = 2
             /\ transactions[1].id = 1
             /\ IsExpense(transactions[1]) /\ transactions[1].amount = Num(25000)
             /\ IsIncome(transactions[2]) /\ transactions[2].amount = Num(100000) )
           => ret = [total_income  |-> Num(100000),
                     total_expense |-> Num(25000),
                     net_balance   |-> Num(75000)]

\* C7 (as claimed): a change the caller makes to a value it got from the
\* ledger, or to the list it gave the constructor, changes neither what
\* get_transactions nor what get_summary reports.
C7_Original ==
    [][op' = "caller_mutation" =>
          /\ get_transactions(SelfNext) = get_transactions(Self)
          /\ get_summary(SelfNext) = get_summary(Self)]_vars

\* C8 (as claimed): every stored transaction has a type, Income or Expense.
C8_Original ==
    \A i \in DOMAIN transactions :
        IsIncome(transactions[i]) \/ IsExpense(transactions[i])

\* The amount token is bad: float() rejects it, or it is a number <= 0.
BadAmountToken(s) == float(s).raised = "ValueError" \/ FLe0(float(s).value)

\* The amount token is valid: a positive number.
ValidAmountToken(s) == float(s).raised = "None" /\ FGt0(float(s).value)

\* The type token is valid: income or expense, in any case.
ValidTypeToken(s) ==
    [i \in DOMAIN s |-> lower(s[i])] \in
        {<<"i","n","c","o","m","e">>, <<"e","x","p","e","n","s","e">>}

CliErrors == {"Error adding transaction", "Error: Invalid type"}

\* C9 (as claimed): a call of the CLI add handler lets no exception out; with
\* an amount token that is unparseable or <= 0, or a type token that is
\* neither income nor expense, it prints an error and leaves the transaction
\* list and the id counter as they were; and it changes the ledger only when
\* the type token and the amount are both valid (the amount a positive
\* number).
C9_Original ==
    [][op' = "cli_add_transaction" =>
          /\ raised' = "None"
          /\ (BadAmountToken(args'.amount) \/ ~ValidTypeToken(args'.type)) =>
                /\ printed' \in CliErrors
                /\ transactions' = transactions
                /\ transaction_id_counter' = transaction_id_counter
          /\ (transactions' # transactions
                \/ transaction_id_counter' # transaction_id_counter) =>
                ValidAmountToken(args'.amount) /\ ValidTypeToken(args'.type)]_vars

\* The part of C9 that the handler keeps: no exception gets out, and the bad
\* inputs the claim lists (unparseable or <= 0 amount, unknown type) are
\* reported and change nothing.
CliListedBadInputsRejected ==
    [][op' = "cli_add_transaction" =>
          /\ raised' = "None"
          /\ (BadAmountToken(args'.amount) \/ ~ValidTypeToken(args'.type)) =>
                /\ printed' \in CliErrors
                /\ transactions' = transactions
                /\ transaction_id_counter' = transaction_id_counter]_vars

\* C10: get_summary changes neither the transaction list nor the id counter,
\* and a second call right after a first returns the same dict.
C10_SummaryIsPure ==
    [][op' = "get_summary" =>
          /\ transactions' = transactions
          /\ transaction_id_counter' = transaction_id_counter
          /\ op = "get_summary" => ret' = ret]_vars

\* C10's case: a summary taken of a ledger whose income and expense are
\* both non-zero.
C10_Witness ==
    /\ op = "get_summary"
    /\ Len(transactions) = 2
    /\ ret.total_income # Num(0)
    /\ ret.total_expense # Num(0)

====
